---- MODULE Spec2Model ----
(***************************************************************************)
(* Model of eth-multicall: the index-set helpers, the chunked batch        *)
(* aggregator (MultiCall.rawCallInChunks) and the orchestrator             *)
(* (MultiCall.all) of src/src/index.ts and src/src/helpers.ts.             *)
(*                                                                         *)
(* JavaScript runs the continuation of a settled promise to its next       *)
(* suspension point before any other network event is delivered, so one    *)
(* action of the model is one network event (a request completing) together *)
(* with every continuation it releases.                                    *)
(***************************************************************************)
EXTENDS Integers, Sequences, FiniteSets, TLC

VARIABLES
    chunkSizes,   \* this.chunkSizes of the constructed client
    op,           \* the entry point invoked on the client ("none" before)
    calls,        \* the flat call list handed to the top rawCallInChunks
    acts,         \* the activations of rawCallInChunks, by path from the top
    input,        \* groupsOfShapes passed to all()
    options,      \* the options record of all()
    direct,       \* traditional mode: per direct call, "pending"/"ok"/"fail"
    directArgs,   \* traditional mode: per direct call, its .call() arguments
    output,       \* the settled promise of all(): state and value
    helper        \* a helper applied to its arguments, with its result

vars == <<chunkSizes, op, calls, acts, input, options, direct, directArgs, output, helper>>

(***************************************************************************)
(* Bounds of the model.                                                    *)
(***************************************************************************)
MaxCalls == 4
MaxLadderLen == 2
MaxChunkSize == 3
MaxGroups == 3
MaxGroupLen == 2
MaxHelperLadderLen == 3
MaxFields == 2
MaxShapes == 2
MaxShapeGroups == 2
MaxTotalFields == 4
MaxHeight == 2

Max(a, b) == IF a > b THEN a ELSE b
Min(a, b) == IF a < b THEN a ELSE b

(***************************************************************************)
(* helpers.ts                                                              *)
(***************************************************************************)
\* the end of each range is the length of its group, not the running total
RECURSIVE createIndexSetFromLen(_, _, _)
createIndexSetFromLen(data, lastIndex, built) ==
    IF data = <<>> THEN built
    ELSE createIndexSetFromLen(Tail(data), lastIndex + Len(Head(data)),
             Append(built, <<lastIndex, Len(Head(data))>>))

RECURSIVE createIndexSetFrom(_, _, _)
createIndexSetFrom(data, lastIndex, built) ==
    IF data = <<>> THEN built
    ELSE createIndexSetFrom(Tail(data), lastIndex + Len(Head(data)),
             Append(built, <<lastIndex, lastIndex + Len(Head(data))>>))

createIndexSet(data) == createIndexSetFrom(data, 0, <<>>)

\* Array.prototype.slice(before, after) for 0 <= before, 0 <= after
slice(arr, before, after) ==
    [i \in 1..Max(0, Min(after, Len(arr)) - before) |-> arr[before + i]]

mergeFromIndexSet(arr, indexes) ==
    [k \in 1..Len(indexes) |-> slice(arr, indexes[k][1], indexes[k][2])]

\* Array.prototype.flat(1) of a list of lists
RECURSIVE flat(_)
flat(data) == IF data = <<>> THEN <<>> ELSE Head(data) \o flat(Tail(data))

\* the filter keeps the entries equal to the call count too
IsUnderOrEqual(callsLength, chunkSize) == chunkSize <= callsLength

IsUnder(callsLength, chunkSize) == chunkSize < callsLength

\* the oversized entries are dropped and nothing is put in their place
dropOverSizedChunks(callsLength, sizes) ==
    SelectSeq(sizes, LAMBDA s : s <= callsLength)

removeOverSizedChunks(callsLength, sizes) ==
    LET hasOverSizedChunks == \E i \in 1..Len(sizes) : sizes[i] > callsLength
        noOverSizedChunks == SelectSeq(sizes, LAMBDA s : IsUnder(callsLength, s))
    IN  IF ~hasOverSizedChunks THEN sizes
        ELSE <<callsLength>> \o noOverSizedChunks

\* chunk that keeps only the full slices
chunkWholeOnly(array, size) ==
    IF Len(array) = 0 \/ size < 1 THEN <<>>
    ELSE [k \in 1..(Len(array) \div size) |->
             slice(array, (k - 1) * size, k * size)]

(***************************************************************************)
(* lodash chunk(array, size): [] when the array is empty or size < 1,      *)
(* else consecutive slices of `size` elements, the last one maybe shorter. *)
(***************************************************************************)
chunk(array, size) ==
    IF Len(array) = 0 \/ size < 1 THEN <<>>
    ELSE [k \in 1..((Len(array) + size - 1) \div size) |->
             slice(array, (k - 1) * size, k * size)]

(***************************************************************************)
(* The aggregator contract: aggregate(calls, strict) answers returnData[i] *)
(* for calls[i].  A call item is <<address, payload>>.                     *)
(***************************************************************************)
Addresses == <<"0xA", "0xB", "0xC">>
Methods == <<"symbol", "decimals">>

\* encodeABI() of a call without arguments: the selector of its method
Selector == ("symbol" :> "0x95d89b41") @@ ("decimals" :> "0x313ce567")

\* the inner call of these items reverts: success = false
Reverting == {<<"0xB", "0x95d89b41">>}
\* the bytes returned for these items do not decode against the declared type
Undecodable == {<<"0xA", "0x313ce567">>}

\* the bytes the target returns for an item, as a hex string
Data ==
    (<<"0xA", "0x95d89b41">> :> "0xa1") @@ (<<"0xA", "0x313ce567">> :> "0xa2") @@
    (<<"0xB", "0x95d89b41">> :> "0xb1") @@ (<<"0xB", "0x313ce567">> :> "0xb2") @@
    (<<"0xC", "0x95d89b41">> :> "0xc1") @@ (<<"0xC", "0x313ce567">> :> "0xc2")

\* the value those bytes stand for when they decode
CallValue ==
    (<<"0xA", "0x95d89b41">> :> "ANT") @@ (<<"0xA", "0x313ce567">> :> "18") @@
    (<<"0xB", "0x95d89b41">> :> "BNT") @@ (<<"0xB", "0x313ce567">> :> "18") @@
    (<<"0xC", "0x95d89b41">> :> "CNT") @@ (<<"0xC", "0x313ce567">> :> "18")

ReturnData(item) ==
    [success |-> item \notin Reverting, data |-> Data[item]]

aggregate(items) == [i \in 1..Len(items) |-> ReturnData(items[i])]

\* lodash zip of two lists of the same length
zip(xs, ys) == [i \in 1..Len(xs) |-> <<xs[i], ys[i]>>]

\* a number, and a value of another type
Num(n) == [t |-> "number", n |-> n]
NotNum == [t |-> "string", n |-> 0]

\* the blockHeight of a call that passes none, and null
NoBlockHeight == [t |-> "undefined", n |-> 0]
Null == [t |-> "null", n |-> 0]

\* the arguments handed to .call(): blockHeight ? [null, blockHeight] : [],
\* where undefined and 0 are falsy
callArgs(blockHeight) ==
    IF blockHeight.t = "number" /\ blockHeight.n # 0
    THEN <<Null, blockHeight>>
    ELSE <<>>

\* the value a successful rawCall(items) resolves to
rawCall(items) == zip([i \in 1..Len(items) |-> items[i][1]], aggregate(items))

(***************************************************************************)
(* rawCallInChunks.  An activation is one call of the function; the top    *)
(* one has path <<>>, the retry of chunk i of activation p has path        *)
(* Append(p, i).  res[i] is the state of the request of chunk i.           *)
(***************************************************************************)
chunksNoBiggerThanRequests(a) == removeOverSizedChunks(Len(a.calls), a.sizes)

\* chunk(calls, undefined) uses size 1
chunks(a) ==
    LET norm == chunksNoBiggerThanRequests(a)
    IN  chunk(a.calls, IF norm = <<>> THEN 1 ELSE norm[1])

Parent(p) == SubSeq(p, 1, Len(p) - 1)

\* F(V, p) with V evaluated once, before F is entered
OnValue(F(_, _), V, p) == CHOOSE x \in {F(v, p) : v \in {V}} : TRUE

\* entering rawCallInChunks: every chunk request is issued at once; with no
\* chunk at all both Promise.all resolve at once and [] is returned
Activation(items, sizes, blockHeight) ==
    LET a0 == [calls |-> items, sizes |-> sizes]
        n == Len(chunks(a0))
    IN  [calls |-> items, sizes |-> sizes, blockHeight |-> blockHeight,
         res |-> [i \in 1..n |-> "pending"],
         phase |-> IF n = 0 THEN "returned" ELSE "first",
         value |-> <<>>]

\* what chunk i of activation p contributes to the value of p
Piece(A, p, i) ==
    IF A[p].res[i] = "ok" THEN rawCall(chunks(A[p])[i])
    ELSE A[Append(p, i)].value

\* the succeeded chunks first, the retried chunks after them
WorkingSucceededFirst(A, p) ==
    LET n == Len(A[p].res)
        ok == SelectSeq([i \in 1..n |-> i], LAMBDA i : A[p].res[i] = "ok")
        ko == SelectSeq([i \in 1..n |-> i], LAMBDA i : A[p].res[i] # "ok")
    IN  flat([k \in 1..Len(ok) |-> Piece(A, p, ok[k])])
            \o flat([k \in 1..Len(ko) |-> Piece(A, p, ko[k])])

Working(A, p) == flat([i \in 1..Len(A[p].res) |-> Piece(A, p, i)])

\* every chunk is retried, the succeeded ones too
FailedOrSucceeded(a) == {i \in 1..Len(a.res) : a.res[i] # "pending"}

Failed(a) == {i \in 1..Len(a.res) : a.res[i] = "fail"}

\* the awaited Promise.all of the retries of p: rejects with the first
\* rejection, resolves when every retry has returned
RECURSIVE Resume(_, _)
Resume(A, p) ==
    LET a == A[p]
        kids == {Append(p, i) : i \in Failed(a)}
        B == IF a.phase # "second" THEN A
             ELSE IF \E k \in kids : A[k].phase = "threw"
                  THEN [A EXCEPT ![p].phase = "threw"]
             ELSE IF \A k \in kids : A[k].phase = "returned"
                  THEN [A EXCEPT ![p].phase = "returned", ![p].value = Working(A, p)]
             ELSE A
    IN  IF B = A \/ p = <<>> THEN B ELSE OnValue(Resume, B, Parent(p))

allFulfilled(a) == \A i \in 1..Len(a.res) : a.res[i] = "ok"

\* every chunk failed, whatever is left of the ladder
allFailed(a) == \A i \in 1..Len(a.res) : a.res[i] = "fail"

allFailedAndLastChunk(a) ==
    /\ Len(chunksNoBiggerThanRequests(a)) = 1
    /\ \A i \in 1..Len(a.res) : a.res[i] = "fail"

\* the retry gets the whole ladder again, its first entry included
sameChunkSize(a) == chunksNoBiggerThanRequests(a)

\* chunksNoBiggerThanRequests.slice(1)
newChunkSize(a) ==
    slice(chunksNoBiggerThanRequests(a), 1, Len(chunksNoBiggerThanRequests(a)))

\* the retry is attempted without looking at what is left of the ladder
FailedRequestIgnored(a) == FALSE

\* a failed chunk with no ladder entry left rejects the second Promise.all
FailedRequest(a) == Failed(a) # {} /\ Len(newChunkSize(a)) = 0

\* the first Promise.all of p has resolved: every chunk request completed
Evaluate(A, p) ==
    LET a == A[p]
        kids == {Append(p, i) : i \in Failed(a)}
        settle(B) == IF p = <<>> THEN B ELSE OnValue(Resume, B, Parent(p))
    IN  IF allFulfilled(a)
        THEN settle([A EXCEPT ![p].phase = "returned", ![p].value = Working(A, p)])
        ELSE IF allFailedAndLastChunk(a) \/ FailedRequest(a)
        THEN settle([A EXCEPT ![p].phase = "threw"])
        ELSE LET retries == [q \in kids |->
                               Activation(chunks(a)[q[Len(q)]], newChunkSize(a),
                                          a.blockHeight)]
                 B == retries @@ [A EXCEPT ![p].phase = "second"]
             IN  OnValue(Resume, B, p)

\* a chunk that fails is evaluated and retried at once, without the join
CompleteFailFast(A, p, i, outcome) ==
    LET B == [A EXCEPT ![p].res[i] = outcome]
    IN  IF outcome # "fail" /\ \E j \in 1..Len(B[p].res) : B[p].res[j] = "pending"
        THEN B
        ELSE OnValue(Evaluate, B, p)

\* the request of chunk i of activation p completes
Complete(A, p, i, outcome) ==
    LET B == [A EXCEPT ![p].res[i] = outcome]
    IN  IF \E j \in 1..Len(B[p].res) : B[p].res[j] = "pending" THEN B
        ELSE OnValue(Evaluate, B, p)

Pending ==
    UNION {{<<p, i>> : i \in {j \in 1..Len(acts[p].res) : acts[p].res[j] = "pending"}} :
              p \in DOMAIN acts}

(***************************************************************************)
(* JavaScript values and objects.  A value is a call descriptor            *)
(* (CallReturn), a string, undefined or an object; an object is the list   *)
(* of its <<key, value>> pairs in property order.                          *)
(***************************************************************************)
CallV(address, method) == [t |-> "call", v |-> method, a |-> address, o |-> <<>>]
Str(s) == [t |-> "string", v |-> s, a |-> "", o |-> <<>>]
Undefined == [t |-> "undefined", v |-> "", a |-> "", o |-> <<>>]
Obj(pairs) == [t |-> "object", v |-> "", a |-> "", o |-> pairs]

\* the integer-like property names, which an object lists first, ascending
IndexKeys == <<"0", "1", "2", "3">>
IsIndexKey(k) == \E i \in 1..Len(IndexKeys) : IndexKeys[i] = k
IndexOf(k) == CHOOSE i \in 1..Len(IndexKeys) : IndexKeys[i] = k

\* the characters of the strings of the model
Chars ==
    ("bar" :> <<"b", "a", "r">>) @@
    ("0xA" :> <<"0", "x", "A">>) @@ ("0xB" :> <<"0", "x", "B">>) @@
    ("0xC" :> <<"0", "x", "C">>) @@
    ("ANT" :> <<"A", "N", "T">>) @@ ("BNT" :> <<"B", "N", "T">>) @@
    ("CNT" :> <<"C", "N", "T">>) @@ ("18" :> <<"1", "8">>) @@
    ("0xa1" :> <<"0", "x", "a", "1">>) @@ ("0xa2" :> <<"0", "x", "a", "2">>) @@
    ("0xb1" :> <<"0", "x", "b", "1">>) @@ ("0xb2" :> <<"0", "x", "b", "2">>) @@
    ("0xc1" :> <<"0", "x", "c", "1">>) @@ ("0xc2" :> <<"0", "x", "c", "2">>) @@
    ("originAddress" :> <<"o", "r", "i", "g">>)

Has(obj, k) == \E i \in 1..Len(obj) : obj[i][1] = k

\* obj[k]
Get(obj, k) ==
    IF Has(obj, k) THEN obj[CHOOSE i \in 1..Len(obj) : obj[i][1] = k][2]
    ELSE Undefined

\* {...obj, [k]: v}
Put(obj, k, v) ==
    IF Has(obj, k)
    THEN [i \in 1..Len(obj) |-> IF obj[i][1] = k THEN <<k, v>> ELSE obj[i]]
    ELSE IF IsIndexKey(k)
    THEN SelectSeq(obj, LAMBDA pr : IsIndexKey(pr[1]) /\ IndexOf(pr[1]) < IndexOf(k))
             \o << <<k, v>> >> \o
         SelectSeq(obj, LAMBDA pr : ~(IsIndexKey(pr[1]) /\ IndexOf(pr[1]) < IndexOf(k)))
    ELSE Append(obj, <<k, v>>)

RECURSIVE PutAll(_, _)
PutAll(obj, pairs) ==
    IF pairs = <<>> THEN obj
    ELSE PutAll(Put(obj, Head(pairs)[1], Head(pairs)[2]), Tail(pairs))

\* lodash fromPairs
fromPairs(pairs) == PutAll(<<>>, pairs)

\* the own enumerable properties a spread {...value} copies
OwnPairs(value) ==
    IF value.t = "object" THEN value.o
    ELSE IF value.t = "string"
    THEN [i \in 1..Len(Chars[value.v]) |-> <<IndexKeys[i], Str(Chars[value.v][i])>>]
    ELSE <<>>

\* lodash omit
omit(obj, keys) == SelectSeq(obj, LAMBDA pr : pr[1] \notin keys)

\* typeof value == "string"
IsString(value) == value.t = "string"

(***************************************************************************)
(* stripLabels, encodeAbi, normalCall, recoverLabels and the body of all.  *)
(***************************************************************************)
stripLabels(groupsOfShapes) ==
    [g \in 1..Len(groupsOfShapes) |->
        [s \in 1..Len(groupsOfShapes[g]) |->
            LET relay == groupsOfShapes[g][s]
                keysToRemove == {relay[i][1] : i \in {j \in 1..Len(relay) :
                                                         IsString(relay[j][2])}}
            IN  omit(relay, keysToRemove)]]

\* the origin address of a shape without literals: undefined when it is empty
FirstOrigin(shape) == IF shape = <<>> THEN Undefined ELSE Str(shape[1][2].a)

\* the check passes as soon as one address equals the first
sameOriginAddressSome(shape) ==
    shape = <<>> \/ \E i \in 1..Len(shape) : shape[i][2].a = shape[1][2].a

\* the check of every address against the first, in encodeAbi
sameOriginAddressEncode(shape) ==
    \A i \in 1..Len(shape) : shape[i][2].a = shape[1][2].a

\* the same check in normalCall
sameOriginAddressNormal(shape) ==
    \A i \in 1..Len(shape) : shape[i][2].a = shape[1][2].a

\* the positions <<group, shape>> of the shapes
Shapes(groups) ==
    UNION {{<<g, s>> : s \in 1..Len(groups[g])} : g \in 1..Len(groups)}

encodeAbiThrows(plainShapes) ==
    \E gs \in Shapes(plainShapes) :
        ~sameOriginAddressEncode(plainShapes[gs[1]][gs[2]])

encodeAbi(plainShapes) ==
    [g \in 1..Len(plainShapes) |->
        [s \in 1..Len(plainShapes[g]) |->
            LET shape == plainShapes[g][s]
            IN  [originAddress |-> FirstOrigin(shape),
                 data |-> [i \in 1..Len(shape) |->
                              <<shape[i][1], Selector[shape[i][2].v]>>]]]]

\* one list of call items per shape, over all the groups
multiCallsOf(abiEncodedGroups) ==
    flat([g \in 1..Len(abiEncodedGroups) |->
        [s \in 1..Len(abiEncodedGroups[g]) |->
            LET group == abiEncodedGroups[g][s]
            IN  [i \in 1..Len(group.data) |->
                    <<group.originAddress.v, group.data[i][2]>>]]])

\* the declared output type of a method (_method.outputs[0].type)
OutputType == ("symbol" :> "string") @@ ("decimals" :> "uint8")

\* decodeHex: the bytes decoded against the type, undefined when
\* decodeParameter throws
decodeHex(hex, type) ==
    LET item == CHOOSE it \in DOMAIN Data : Data[it] = hex
        method == CHOOSE m \in DOMAIN Selector : Selector[m] = item[2]
    IN  IF item \in Undecodable \/ type # OutputType[method] THEN Undefined
        ELSE Str(CallValue[item])

\* the reduce of all() over one shape: its fields zipped with its results
RECURSIVE withOriginOf(_, _, _, _)
withOriginOf(pairs, resultsArr, skipDecode, acc) ==
    IF pairs = <<>> THEN acc
    ELSE LET key == Head(pairs)[1]
             callReturn == Head(pairs)[2]
             origin == Head(resultsArr)[1]
             ret == Head(resultsArr)[2]
             result == IF skipDecode THEN Str(ret.data)
                       ELSE IF ret.success
                       THEN decodeHex(ret.data, OutputType[callReturn.v])
                       ELSE Undefined
         IN  withOriginOf(Tail(pairs), Tail(resultsArr), skipDecode,
                 Put(Put(acc, "_originAddress", Str(origin)), key, result))

\* the spread of big.data comes before the spread of noData
recoverShapeDataFirst(plain, origin) ==
    LET originAddressKey == "_originAddress"
        originAddress == Get(origin, originAddressKey)
        literals == SelectSeq(plain, LAMBDA pr : IsString(pr[2]))
        keysToAdd == [i \in 1..Len(literals) |->
                         <<literals[i][1],
                           IF literals[i][2].v = "originAddress" THEN originAddress
                           ELSE literals[i][2]>>]
        keysAdded == PutAll(origin, keysToAdd)
        big == omit(keysAdded, {originAddressKey})
        noData == omit(big, {"data"})
    IN  PutAll(OwnPairs(Get(big, "data")), noData)

recoverShape(plain, origin) ==
    LET originAddressKey == "_originAddress"
        originAddress == Get(origin, originAddressKey)
        literals == SelectSeq(plain, LAMBDA pr : IsString(pr[2]))
        keysToAdd == [i \in 1..Len(literals) |->
                         <<literals[i][1],
                           IF literals[i][2].v = "originAddress" THEN originAddress
                           ELSE literals[i][2]>>]
        keysAdded == PutAll(origin, keysToAdd)
        big == omit(keysAdded, {originAddressKey})
        noData == omit(big, {"data"})
    IN  PutAll(noData, OwnPairs(Get(big, "data")))

recoverLabels(original, withData) ==
    [g \in 1..Len(original) |->
        [s \in 1..Len(original[g]) |-> recoverShape(original[g][s], withData[g][s])]]

\* multiCallGroups, once rawCallInChunks has returned res
multiCallGroupsReturn(multiCalls, res) ==
    IF Len(multiCalls) = 0 THEN <<>>
    ELSE mergeFromIndexSet(res, createIndexSet(multiCalls))

\* all(), aggregated mode, from the flat result list of rawCallInChunks on
allReturn(groupsOfShapes, skipDecode, flatRes) ==
    LET plainShapes == stripLabels(groupsOfShapes)
        multiCalls == multiCallsOf(encodeAbi(plainShapes))
        res == multiCallGroupsReturn(multiCalls, flatRes)
        rebuiltRes == mergeFromIndexSet(res, createIndexSet(groupsOfShapes))
        withOrigin ==
            [g \in 1..Len(plainShapes) |->
                [s \in 1..Len(plainShapes[g]) |->
                    withOriginOf(plainShapes[g][s], rebuiltRes[g][s], skipDecode, <<>>)]]
    IN  recoverLabels(groupsOfShapes, withOrigin)

\* the direct calls of traditional mode: <<g, s, i>> is field i of the
\* stripped shape s of group g
DirectCalls(plainShapes) ==
    UNION {{<<gs[1], gs[2], i>> : i \in 1..Len(plainShapes[gs[1]][gs[2]])} :
              gs \in Shapes(plainShapes)}

DirectItem(plainShapes, d) ==
    LET abi == plainShapes[d[1]][d[2]][d[3]][2]
    IN  <<abi.a, Selector[abi.v]>>

\* the direct calls that reject whatever the transport does
MustFail(plainShapes) ==
    {d \in DirectCalls(plainShapes) :
        DirectItem(plainShapes, d) \in Reverting \cup Undecodable}

normalCallThrows(plainShapes) ==
    \E gs \in Shapes(plainShapes) :
        ~sameOriginAddressNormal(plainShapes[gs[1]][gs[2]])

\* normalCall, with the set of direct calls that rejected
normalCall(plainShapes, rejected) ==
    [g \in 1..Len(plainShapes) |->
        [s \in 1..Len(plainShapes[g]) |->
            LET shape == plainShapes[g][s]
            IN  << <<"_originAddress", FirstOrigin(shape)>>,
                   <<"data", Obj(fromPairs([i \in 1..Len(shape) |->
                        <<shape[i][1],
                          IF <<g, s, i>> \in rejected THEN Undefined
                          ELSE Str(CallValue[DirectItem(plainShapes, <<g, s, i>>)])>>]))>> >>]]

\* all(), traditional mode
traditionalReturn(groupsOfShapes, rejected) ==
    recoverLabels(groupsOfShapes, normalCall(stripLabels(groupsOfShapes), rejected))

\* groupsOfShapes.flat(9).length
flattenedAmount(groupsOfShapes) == Len(flat(groupsOfShapes))

(***************************************************************************)
(* Inputs.                                                                 *)
(***************************************************************************)
\* six unique calls, repeated (as in the chunk test of base.jest.ts)
UniqueCalls ==
    << <<"0xA", "0x95d89b41">>, <<"0xA", "0x313ce567">>, <<"0xB", "0x95d89b41">>,
       <<"0xB", "0x313ce567">>, <<"0xC", "0x95d89b41">>, <<"0xC", "0x313ce567">> >>

CallList(n) == [i \in 1..n |-> UniqueCalls[((i - 1) % Len(UniqueCalls)) + 1]]

RECURSIVE SeqsOfLen(_, _)
SeqsOfLen(S, n) ==
    IF n = 0 THEN {<<>>}
    ELSE {Append(s, x) : s \in SeqsOfLen(S, n - 1), x \in S}

SeqsUpTo(S, n) == UNION {SeqsOfLen(S, k) : k \in 0..n}

\* the ladders of positive integers
Ladders == SeqsUpTo(1..MaxChunkSize, MaxLadderLen) \ {<<>>}

NoInput == <<>>
NoOptions == [skipDecode |-> FALSE, traditional |-> FALSE,
              blockHeight |-> NoBlockHeight]
NoOutput == [state |-> "none", value |-> <<>>]
NoHelper == [name |-> "none", n |-> 0, list |-> <<>>, lists |-> <<>>,
             ranges |-> <<>>, result |-> <<>>]

\* the field names: ordinary ones, by the position of the field, and the
\* two names the implementation uses for its own bookkeeping
Ordinary == <<"symbol", "foo", "baz", "qux">>
Reserved == {"data", "_originAddress"}
Labels == {Ordinary[i] : i \in 1..Len(Ordinary)} \cup Reserved
\* a field is a call or one of two literals
Kinds == {"call", "originAddress", "bar"}

FieldLists ==
    {f \in SeqsUpTo(Labels \X Kinds, MaxFields) :
        /\ \A i, j \in 1..Len(f) : i # j => f[i][1] # f[j][1]
        /\ \A i \in 1..Len(f) :
               f[i][1] \in Reserved \/ f[i][1] = Ordinary[((i - 1) % Len(Ordinary)) + 1]}

\* plain: every call bound to the address of the shape; bare: the literal
\* fields only; mixed: the last of several calls bound to another address
Variants == {"plain", "bare", "mixed"}

AddressOf(k) == Addresses[((k - 1) % Len(Addresses)) + 1]

\* shape number k, as in addresses.map((x) => ({...})) of base.jest.ts
ShapeOf(f, k, variant) ==
    LET callIdx == {i \in 1..Len(f) : f[i][2] = "call"}
        lastCall == CHOOSE i \in callIdx : \A j \in callIdx : j <= i
        address(i) == IF variant = "mixed" /\ Cardinality(callIdx) >= 2 /\ i = lastCall
                      THEN AddressOf(k + 1) ELSE AddressOf(k)
        full == [i \in 1..Len(f) |->
                    <<f[i][1],
                      IF f[i][2] = "call"
                      THEN CallV(address(i), Methods[((i - 1) % Len(Methods)) + 1])
                      ELSE Str(f[i][2])>>]
    IN  IF variant = "bare" THEN SelectSeq(full, LAMBDA pr : IsString(pr[2]))
        ELSE full

RECURSIVE Sum(_)
Sum(l) == IF l = <<>> THEN 0 ELSE Head(l) + Sum(Tail(l))

\* the numbers of shapes of the groups
Structures ==
    {lens \in SeqsUpTo(0..MaxShapes, MaxShapeGroups) : Sum(lens) <= MaxShapes}

\* the shapes are built alike, but for shape number `at`, of variant `variant`
GroupsOf(f, lens, variant, at) ==
    [g \in 1..Len(lens) |->
        [s \in 1..lens[g] |->
            LET k == Sum(SubSeq(lens, 1, g - 1)) + s
            IN  ShapeOf(f, k, IF k = at THEN variant ELSE "plain")]]

TotalFields(groupsOfShapes) ==
    Sum([g \in 1..Len(groupsOfShapes) |-> Len(flat(groupsOfShapes[g]))])

\* the inputs of all(): at most MaxTotalFields fields in all
InputsAll ==
    {in \in {GroupsOf(c[1], c[2], variant, at) :
                c \in {d \in FieldLists \X Structures :
                          Len(d[1]) * (Sum(d[2]) - 1) <= MaxTotalFields},
                variant \in Variants, at \in 1..MaxShapes} :
        TotalFields(in) <= MaxTotalFields}

\* the ladder of the clients that all() is invoked on
AllLadders == {<<2, 1>>}

\* the default ladder of the constructor
DefaultChunkSizes == <<300, 100, 25>>

\* a grouping of lists: group k holds the elements <<k, 1>>, <<k, 2>>, ...
Groupings ==
    {[k \in 1..Len(lens) |-> [j \in 1..lens[k] |-> <<k, j>>]] :
        lens \in SeqsUpTo(0..MaxGroupLen, MaxGroups)}

HelperInputs ==
    {[NoHelper EXCEPT !.name = "groups", !.lists = g] : g \in Groupings}
    \cup {[NoHelper EXCEPT !.name = "ladder", !.n = n, !.list = l] :
              n \in 0..MaxCalls,
              l \in SeqsUpTo(1..MaxChunkSize, MaxHelperLadderLen) \ {<<>>}}

Init ==
    /\ chunkSizes \in Ladders
    /\ op = "none"
    /\ calls = <<>>
    /\ acts = <<>>
    /\ input = NoInput
    /\ options = NoOptions
    /\ direct = <<>>
    /\ directArgs = <<>>
    /\ output = NoOutput
    /\ helper = NoHelper

(***************************************************************************)
(* Entry point rawCallInChunks(calls, chunkSizes), called directly.        *)
(***************************************************************************)
InvokeRawCallInChunks ==
    /\ op = "none"
    /\ \E n \in 0..MaxCalls :
          /\ calls' = CallList(n)
          /\ acts' = [p \in {<<>>} |-> Activation(CallList(n), chunkSizes, NoBlockHeight)]
    /\ op' = "rawCallInChunks"
    /\ UNCHANGED <<chunkSizes, input, options, direct, directArgs, output, helper>>

\* all() awaiting multiCallGroups: it resumes when the top rawCallInChunks
\* has settled
AllResumes(A) ==
    IF op # "all" \/ output.state # "pending" THEN output
    ELSE IF A[<<>>].phase = "returned"
    THEN [state |-> "returned",
          value |-> allReturn(input, options.skipDecode, A[<<>>].value)]
    ELSE IF A[<<>>].phase = "threw" THEN [state |-> "threw", value |-> <<>>]
    ELSE output

RequestSucceeds ==
    /\ \E r \in Pending : acts' = Complete(acts, r[1], r[2], "ok")
    /\ output' = AllResumes(acts')
    /\ UNCHANGED <<chunkSizes, op, calls, input, options, direct, directArgs, helper>>

RequestFails ==
    /\ \E r \in Pending : acts' = Complete(acts, r[1], r[2], "fail")
    /\ output' = AllResumes(acts')
    /\ UNCHANGED <<chunkSizes, op, calls, input, options, direct, directArgs, helper>>

(***************************************************************************)
(* Entry point all(groupsOfShapes, options).                               *)
(***************************************************************************)
InitAll ==
    /\ chunkSizes \in AllLadders
    /\ op = "none"
    /\ calls = <<>>
    /\ acts = <<>>
    /\ input = NoInput
    /\ options = NoOptions
    /\ direct = <<>>
    /\ directArgs = <<>>
    /\ output = NoOutput
    /\ helper = NoHelper

\* traditional mode: every well-formed shape issues its direct calls, a
\* shape with two origins rejects normalCall
AllTraditional(groupsOfShapes, blockHeight) ==
    LET plainShapes == stripLabels(groupsOfShapes)
        issued == {d \in DirectCalls(plainShapes) :
                      sameOriginAddressNormal(plainShapes[d[1]][d[2]])}
    IN  /\ UNCHANGED <<calls, acts>>
        /\ directArgs' = [d \in issued |-> callArgs(blockHeight)]
        /\ IF normalCallThrows(plainShapes)
           THEN /\ direct' = [d \in issued |-> "pending"]
                /\ output' = [state |-> "threw", value |-> <<>>]
           ELSE \E rejected \in SUBSET issued :
                   /\ MustFail(plainShapes) \subseteq rejected
                   /\ direct' = [d \in issued |->
                                     IF d \in rejected THEN "fail" ELSE "ok"]
                   /\ output' = [state |-> "returned",
                                  value |-> traditionalReturn(groupsOfShapes, rejected)]

\* aggregated mode, up to the await of multiCallGroups
AllAggregated(groupsOfShapes, skipDecode, blockHeight) ==
    LET plainShapes == stripLabels(groupsOfShapes)
        flatCalls == flat(multiCallsOf(encodeAbi(plainShapes)))
        top == Activation(flatCalls, chunkSizes, blockHeight)
    IN  /\ UNCHANGED <<direct, directArgs>>
        /\ IF encodeAbiThrows(plainShapes)
           THEN /\ UNCHANGED <<calls, acts>>
                /\ output' = [state |-> "threw", value |-> <<>>]
           ELSE /\ calls' = flatCalls
                /\ acts' = [p \in {<<>>} |-> top]
                /\ output' = IF top.phase = "returned"
                              THEN [state |-> "returned",
                                    value |-> allReturn(groupsOfShapes, skipDecode, <<>>)]
                              ELSE [state |-> "pending", value |-> <<>>]

\* all(groupsOfShapes, passedOptions), the options spread over the defaults
all(groupsOfShapes, passedOptions) ==
    /\ input' = groupsOfShapes
    /\ options' = passedOptions
    /\ IF flattenedAmount(groupsOfShapes) = 0
       THEN /\ output' = [state |-> "returned", value |-> groupsOfShapes]
            /\ UNCHANGED <<calls, acts, direct, directArgs>>
       ELSE IF passedOptions.traditional
       THEN AllTraditional(groupsOfShapes, passedOptions.blockHeight)
       ELSE AllAggregated(groupsOfShapes, passedOptions.skipDecode,
                          passedOptions.blockHeight)

\* all() with no blockHeight among the options
InvokeAll ==
    /\ op = "none"
    /\ op' = "all"
    /\ \E groupsOfShapes \in InputsAll, skipDecode \in BOOLEAN, traditional \in BOOLEAN :
          all(groupsOfShapes, [NoOptions EXCEPT !.skipDecode = skipDecode,
                                                !.traditional = traditional])
    /\ UNCHANGED <<chunkSizes, helper>>

NextAll == InvokeAll \/ RequestSucceeds \/ RequestFails

SpecAll == InitAll /\ [][NextAll]_vars

\* the shapes of calls only, under ordinary names, bound to one address each
InputsPinned ==
    {in \in InputsAll :
        \A g \in 1..Len(in) : \A k \in 1..Len(in[g]) :
            /\ in[g][k] # <<>>
            /\ \A i \in 1..Len(in[g][k]) :
                   /\ in[g][k][i][1] \notin Reserved
                   /\ ~IsString(in[g][k][i][2])
                   /\ in[g][k][i][2].a = in[g][k][1][2].a}

\* the block heights passed to all()
Heights == {Num(n) : n \in 0..MaxHeight}

\* all() with a blockHeight among the options
InvokeAllPinned ==
    /\ op = "none"
    /\ op' = "all"
    /\ \E groupsOfShapes \in InputsPinned, traditional \in BOOLEAN,
          blockHeight \in Heights :
          all(groupsOfShapes, [NoOptions EXCEPT !.traditional = traditional,
                                                !.blockHeight = blockHeight])
    /\ UNCHANGED <<chunkSizes, helper>>

NextPinned == InvokeAllPinned \/ RequestSucceeds \/ RequestFails

SpecPinned == InitAll /\ [][NextPinned]_vars

(***************************************************************************)
(* The helpers applied to their arguments.                                 *)
(***************************************************************************)
InitHelpers ==
    /\ chunkSizes = DefaultChunkSizes
    /\ op = "none"
    /\ calls = <<>>
    /\ acts = <<>>
    /\ input = NoInput
    /\ options = NoOptions
    /\ direct = <<>>
    /\ directArgs = <<>>
    /\ output = NoOutput
    /\ helper \in HelperInputs

ApplyCreateIndexSet ==
    /\ helper.name = "groups"
    /\ helper' = [helper EXCEPT !.name = "createIndexSet",
                                 !.ranges = createIndexSet(helper.lists)]
    /\ UNCHANGED <<chunkSizes, op, calls, acts, input, options, direct, directArgs, output>>

ApplyMergeFromIndexSet ==
    /\ helper.name = "createIndexSet"
    /\ helper' = [helper EXCEPT !.name = "mergeFromIndexSet",
                      !.result = mergeFromIndexSet(flat(helper.lists), helper.ranges)]
    /\ UNCHANGED <<chunkSizes, op, calls, acts, input, options, direct, directArgs, output>>

ApplyRemoveOverSizedChunks ==
    /\ helper.name = "ladder"
    /\ helper' = [helper EXCEPT !.name = "removeOverSizedChunks",
                      !.result = removeOverSizedChunks(helper.n, helper.list)]
    /\ UNCHANGED <<chunkSizes, op, calls, acts, input, options, direct, directArgs, output>>

NextHelpers ==
    ApplyCreateIndexSet \/ ApplyMergeFromIndexSet \/ ApplyRemoveOverSizedChunks

SpecHelpers == InitHelpers /\ [][NextHelpers]_vars

(***************************************************************************)
(* The constructor, applied to a candidate ladder.  An entry is a number   *)
(* or a value of another type.                                             *)
(***************************************************************************)
\* lodash isNumber
isNumber(entry) == entry.t = "number"

CandidateEntries == {Num(n) : n \in {-1, 0, 1, 2}} \cup {NotNum}
CandidateLadders == SeqsUpTo(CandidateEntries, MaxLadderLen)

isNumbersAndAtLeastOne(ladder) ==
    (\A i \in 1..Len(ladder) : isNumber(ladder[i])) /\ Len(ladder) > 0

InitCtor ==
    /\ chunkSizes = <<>>
    /\ op = "new"
    /\ calls = <<>>
    /\ acts = <<>>
    /\ input = NoInput
    /\ options = NoOptions
    /\ direct = <<>>
    /\ directArgs = <<>>
    /\ output = NoOutput
    /\ helper = NoHelper

\* new MultiCall(web3, contract, ladder)
Construct ==
    /\ op = "new"
    /\ \E ladder \in CandidateLadders :
          /\ helper' = [NoHelper EXCEPT !.name = "constructor", !.list = ladder]
          /\ IF ~isNumbersAndAtLeastOne(ladder)
             THEN /\ op' = "constructor threw"
                  /\ UNCHANGED chunkSizes
             ELSE /\ op' = "none"
                  /\ chunkSizes' = [i \in 1..Len(ladder) |-> ladder[i].n]
    /\ UNCHANGED <<calls, acts, input, options, direct, directArgs, output>>

NextCtor == Construct \/ InvokeRawCallInChunks \/ RequestSucceeds \/ RequestFails

SpecCtor == InitCtor /\ [][NextCtor]_vars

Next == InvokeRawCallInChunks \/ RequestSucceeds \/ RequestFails

Spec == Init /\ [][Next]_vars

\* every request in flight completes in the end, with success or failure
Fairness == WF_vars(RequestSucceeds \/ RequestFails)

SpecLive == Init /\ [][Next]_vars /\ Fairness

(***************************************************************************)
(* The chunked batch aggregator.                                           *)
(***************************************************************************)
Running == <<>> \in DOMAIN acts
Top == acts[<<>>]
Returned == Running /\ Top.phase = "returned"
Threw == Running /\ Top.phase = "threw"
Quiet == Pending = {}
Requests == UNION {{<<p, i>> : i \in 1..Len(acts[p].res)} : p \in DOMAIN acts}
SizeOf(r) == Len(chunks(acts[r[1]])[r[2]])
StateOf(r) == acts[r[1]].res[r[2]]

\* C1: whenever rawCallInChunks returns, its result has exactly one entry per
\* input call and entry i is the aggregator's result for input call i,
\* whatever chunks failed, in whatever order the requests completed and
\* however many retry levels occurred.
C1_ResultInInputOrder ==
    (op = "rawCallInChunks" /\ Returned) =>
        /\ Len(Top.value) = Len(calls)
        /\ \A i \in 1..Len(calls) :
               Top.value[i] = <<calls[i][1], ReturnData(calls[i])>>

\* a return after a retry, where a failed chunk preceded a succeeded one
C1_Witness ==
    /\ op = "rawCallInChunks" /\ Returned
    /\ Len(calls) >= 3
    /\ \E i, j \in 1..Len(Top.res) :
           i < j /\ Top.res[i] = "fail" /\ Top.res[j] = "ok"

\* C3: chunk-invariance: when every request succeeds, rawCallInChunks with
\* any ladder returns the list one unchunked rawCall of the whole call list
\* returns, element for element.
C3_ChunkInvariance ==
    (op = "rawCallInChunks" /\ Quiet /\ Running
        /\ \A r \in Requests : StateOf(r) = "ok") =>
        Returned /\ Top.value = rawCall(calls)

\* every request succeeded, there were several chunks and the last is short
C3_Witness ==
    /\ op = "rawCallInChunks" /\ Returned
    /\ \A r \in Requests : StateOf(r) = "ok"
    /\ Len(Top.res) >= 2
    /\ Len(chunks(Top)[Len(Top.res)]) < Len(chunks(Top)[1])

TerminalFailure(p) ==
    /\ Failed(acts[p]) # {}
    /\ Len(newChunkSize(acts[p])) = 0

\* C4: terminal exhaustion: once the requests of an activation that has no
\* further ladder entry have completed and one of them failed (with a
\* single-entry ladder: the top activation), the top-level invocation has
\* raised; and an invocation that returns had no such failure and returns one
\* entry per call.
C4_TerminalExhaustion ==
    (op = "rawCallInChunks" /\ Running) =>
        /\ \A p \in DOMAIN acts :
               (TerminalFailure(p) /\ \A i \in 1..Len(acts[p].res) :
                                        acts[p].res[i] # "pending") => Threw
        /\ Returned => /\ \A p \in DOMAIN acts : ~TerminalFailure(p)
                        /\ Len(Top.value) = Len(calls)

\* the top invocation raised because a retry failed at the last ladder
\* entry, while another chunk of the top level had succeeded
C4_Witness ==
    /\ op = "rawCallInChunks" /\ Threw
    /\ \E i \in 1..Len(Top.res) : Top.res[i] = "ok"
    /\ \E p \in DOMAIN acts : p # <<>> /\ TerminalFailure(p)

StrictlyDecreasing(l) == \A i \in 1..Len(l) - 1 : l[i] > l[i + 1]

\* every completed request with more than s calls failed, every completed
\* request with at most s calls succeeded
ThresholdRun(s) ==
    \A r \in Requests :
        /\ StateOf(r) = "ok" => SizeOf(r) <= s
        /\ StateOf(r) = "fail" => SizeOf(r) > s

\* C5: with a strictly decreasing ladder whose last entry is s, when every
\* request of more than s calls fails and every request of at most s calls
\* succeeds, rawCallInChunks does not raise, and once its requests have
\* completed it has returned the unchunked result in the original order.
C5_FallbackRecovers ==
    (op = "rawCallInChunks" /\ Running /\ StrictlyDecreasing(Top.sizes)
        /\ ThresholdRun(Top.sizes[Len(Top.sizes)])) =>
        /\ ~Threw
        /\ Quiet => (Returned /\ Top.value = rawCall(calls))

\* a recovery: the first ladder entry failed, the retries succeeded
C5_Witness ==
    /\ op = "rawCallInChunks" /\ Returned
    /\ StrictlyDecreasing(Top.sizes) /\ Len(Top.sizes) >= 2
    /\ ThresholdRun(Top.sizes[Len(Top.sizes)])
    /\ Failed(Top) # {}

(***************************************************************************)
(* The index-set codec and the ladder normalisation.                       *)
(***************************************************************************)
RECURSIVE SumLen(_, _)
SumLen(lists, k) == IF k = 0 THEN 0 ELSE SumLen(lists, k - 1) + Len(lists[k])

\* C7: round trip: createIndexSet returns the running-total ranges
\* [0,l0), [l0,l0+l1), ..., and mergeFromIndexSet of the flattened groups with
\* that index set gives the groups back, empty groups included.
C7_RoundTrip ==
    /\ helper.name \in {"createIndexSet", "mergeFromIndexSet"} =>
           /\ Len(helper.ranges) = Len(helper.lists)
           /\ \A k \in 1..Len(helper.lists) :
                  helper.ranges[k] =
                      <<SumLen(helper.lists, k - 1), SumLen(helper.lists, k)>>
    /\ helper.name = "mergeFromIndexSet" => helper.result = helper.lists

\* a grouping rebuilt that has an empty group between two non-empty ones
C7_Witness ==
    /\ helper.name = "mergeFromIndexSet"
    /\ Len(helper.lists) = 3
    /\ Len(helper.lists[1]) = 2 /\ Len(helper.lists[2]) = 0
    /\ Len(helper.lists[3]) = 1
    /\ helper.result[3] = << <<3, 1>> >>

\* C8: removeOverSizedChunks(n, ladder) returns the ladder unchanged when no
\* entry exceeds n (an entry equal to n is not oversized); when some entry
\* exceeds n the result is one entry equal to n, placed first, followed by
\* the undersized entries in their given order.
C8_OversizedNormalization ==
    helper.name = "removeOverSizedChunks" =>
        LET n == helper.n
            l == helper.list
            r == helper.result
        IN  /\ (\A i \in 1..Len(l) : l[i] <= n) => r = l
            /\ (\E i \in 1..Len(l) : l[i] > n) =>
                   /\ Len(r) >= 1 /\ r[1] = n
                   /\ Tail(r) = SelectSeq(l, LAMBDA x : x < n)
                   /\ Cardinality({i \in 1..Len(r) : r[i] = n}) = 1

\* a ladder with an undersized entry before an oversized one and an entry
\* equal to the call count
C8_Witness ==
    /\ helper.name = "removeOverSizedChunks"
    /\ helper.n = 2 /\ helper.list = <<1, 3, 2>>
    /\ helper.result = <<2, 1>>

\* an unchanged ladder whose first entry equals the call count
C8_WitnessEqual ==
    /\ helper.name = "removeOverSizedChunks"
    /\ helper.n = 3 /\ helper.list = <<3, 2, 1>>
    /\ helper.result = <<3, 2, 1>>

(***************************************************************************)
(* The orchestrator all().                                                 *)
(***************************************************************************)
AllReturned == op = "all" /\ output.state = "returned"
CallFields(shape) == {i \in 1..Len(shape) : shape[i][2].t = "call"}
LiteralFields(shape) == {i \in 1..Len(shape) : IsString(shape[i][2])}
ItemOf(callReturn) == <<callReturn.a, Selector[callReturn.v]>>

\* the result of a field's own call: the raw bytes with skipDecode, else the
\* decoded value, undefined when the call reverted or does not decode
OwnResult(callReturn, skipDecode) ==
    IF skipDecode THEN Str(Data[ItemOf(callReturn)])
    ELSE IF ItemOf(callReturn) \in Reverting \cup Undecodable THEN Undefined
    ELSE Str(CallValue[ItemOf(callReturn)])

SameCounts(out, in) ==
    /\ Len(out) = Len(in)
    /\ \A g \in 1..Len(in) : Len(out[g]) = Len(in[g])

\* a shape none of whose fields has a name the implementation uses itself
OrdinaryNames(shape) == \A i \in 1..Len(shape) : shape[i][1] \notin Reserved

\* C2: in aggregated mode, when all() completes its output has the same
\* number of groups and of shapes per group as the input, and the value of
\* each Call field is the result of that field's own call, whatever chunking
\* and retries took place.
C2_OwnResultPerField ==
    (AllReturned /\ ~options.traditional) =>
        /\ SameCounts(output.value, input)
        /\ \A gs \in Shapes(input) :
               LET shape == input[gs[1]][gs[2]]
               IN  \A i \in CallFields(shape) :
                       Get(output.value[gs[1]][gs[2]], shape[i][1]) =
                           OwnResult(shape[i][2], options.skipDecode)

\* C2 for the shapes none of whose fields is named "data" or "_originAddress"
C2_OrdinaryNames ==
    (AllReturned /\ ~options.traditional) =>
        /\ SameCounts(output.value, input)
        /\ \A gs \in Shapes(input) :
               LET shape == input[gs[1]][gs[2]]
               IN  OrdinaryNames(shape) =>
                       \A i \in CallFields(shape) :
                           Get(output.value[gs[1]][gs[2]], shape[i][1]) =
                               OwnResult(shape[i][2], options.skipDecode)

LiteralsPassThrough(shape, out) ==
    \A i \in LiteralFields(shape) :
        /\ Has(out, shape[i][1])
        /\ Get(out, shape[i][1]) =
               IF shape[i][2].v = "originAddress"
               THEN Str(shape[CHOOSE j \in CallFields(shape) : TRUE][2].a)
               ELSE shape[i][2]

\* C6: for every shape with at least one Call field, a literal field whose
\* value is "originAddress" appears in the output with the target address of
\* the shape's calls and every other literal field appears with its input
\* value, in both modes and with skipDecode on or off.
C6_LiteralPassthrough ==
    AllReturned =>
        \A gs \in Shapes(input) :
            LET shape == input[gs[1]][gs[2]]
            IN  CallFields(shape) # {} =>
                    LiteralsPassThrough(shape, output.value[gs[1]][gs[2]])

\* C6 for the shapes none of whose fields is named "data" or "_originAddress"
C6_OrdinaryNames ==
    AllReturned =>
        \A gs \in Shapes(input) :
            LET shape == input[gs[1]][gs[2]]
            IN  (CallFields(shape) # {} /\ OrdinaryNames(shape)) =>
                    LiteralsPassThrough(shape, output.value[gs[1]][gs[2]])

\* the same keys with the same values, in whatever order
SameObject(x, y) ==
    /\ {x[i][1] : i \in 1..Len(x)} = {y[i][1] : i \in 1..Len(y)}
    /\ \A i \in 1..Len(x) : Get(y, x[i][1]) = x[i][2]

\* what all(input) returns in aggregated mode when its requests succeed
AggregatedOutput(groupsOfShapes) ==
    allReturn(groupsOfShapes, FALSE,
              rawCall(flat(multiCallsOf(encodeAbi(stripLabels(groupsOfShapes))))))

\* every direct call had the outcome the call has through the aggregator
SameOutcomes == \A d \in DOMAIN direct :
                    direct[d] = "fail" <=> d \in MustFail(stripLabels(input))

\* C9: mode equivalence: when each call has the same outcome directly as
\* through the aggregator, all(input, {traditional: true}) returns what
\* all(input) returns in aggregated mode, shape for shape and value for value.
C9_ModeEquivalence ==
    (AllReturned /\ options.traditional /\ ~options.skipDecode
        /\ flattenedAmount(input) > 0 /\ SameOutcomes) =>
        /\ SameCounts(output.value, AggregatedOutput(input))
        /\ \A gs \in Shapes(input) :
               SameObject(output.value[gs[1]][gs[2]],
                          AggregatedOutput(input)[gs[1]][gs[2]])

\* C9 for the inputs none of whose fields is named "data" or "_originAddress"
C9_OrdinaryNames ==
    (AllReturned /\ options.traditional /\ ~options.skipDecode
        /\ flattenedAmount(input) > 0 /\ SameOutcomes
        /\ \A gs \in Shapes(input) : OrdinaryNames(input[gs[1]][gs[2]])) =>
        /\ SameCounts(output.value, AggregatedOutput(input))
        /\ \A gs \in Shapes(input) :
               SameObject(output.value[gs[1]][gs[2]],
                          AggregatedOutput(input)[gs[1]][gs[2]])

\* a shape whose Call fields are bound to more than one target address
TwoOrigins(shape) ==
    \E i, j \in CallFields(shape) : shape[i][2].a # shape[j][2].a

\* C10: if a shape of the input has Call fields bound to more than one
\* target address, all() raises for the whole invocation and returns no
\* output, in aggregated and in traditional mode.
C10_OriginMismatchFatal ==
    (op = "all" /\ \E gs \in Shapes(input) : TwoOrigins(input[gs[1]][gs[2]])) =>
        /\ output.state = "threw"
        /\ output.value = <<>>
        /\ ~Running

\* aggregated mode: a well-formed shape precedes the shape with two origins
C10_Witness ==
    /\ op = "all" /\ ~options.traditional /\ output.state = "threw"
    /\ Len(input) = 2 /\ Len(input[1]) = 1 /\ Len(input[2]) = 1
    /\ CallFields(input[1][1]) # {} /\ ~TwoOrigins(input[1][1])
    /\ TwoOrigins(input[2][1])

\* traditional mode: the direct calls of the well-formed shape were issued
C10_WitnessTraditional ==
    /\ op = "all" /\ options.traditional /\ output.state = "threw"
    /\ \E gs \in Shapes(input) : TwoOrigins(input[gs[1]][gs[2]])
    /\ DOMAIN direct # {}

\* the Call fields of a shape whose inner call failed or does not decode
Absorbed(shape) ==
    {i \in CallFields(shape) : ItemOf(shape[i][2]) \in Reverting \cup Undecodable}

\* a succeeded chunk request is never retried
NoRetryOfSucceeded ==
    \A r \in Requests : StateOf(r) = "ok" => Append(r[1], r[2]) \notin DOMAIN acts

AbsorbedIn(shape, out) ==
    /\ \A i \in Absorbed(shape) : Get(out, shape[i][1]) = Undefined
    /\ \A i \in CallFields(shape) \ Absorbed(shape) :
           Get(out, shape[i][1]) = OwnResult(shape[i][2], FALSE)

\* C11: per-field failures are absorbed: in aggregated mode a chunk whose
\* request succeeded is not retried even when it carries a result with
\* success = false; when every request succeeded all() has returned and not
\* raised; and with decoding on, in a shape with a field whose inner call
\* failed or whose bytes do not decode, that field is undefined and every
\* sibling Call field has the value of its own call.
C11_FailuresAbsorbed ==
    (op = "all" /\ ~options.traditional /\ Running) =>
        /\ NoRetryOfSucceeded
        /\ (Quiet /\ \A r \in Requests : StateOf(r) = "ok") => AllReturned
        /\ (AllReturned /\ ~options.skipDecode) =>
               \A gs \in Shapes(input) :
                   LET shape == input[gs[1]][gs[2]]
                   IN  Absorbed(shape) # {} =>
                           AbsorbedIn(shape, output.value[gs[1]][gs[2]])

\* C11 for the shapes none of whose fields is named "data" or "_originAddress"
C11_OrdinaryNames ==
    (op = "all" /\ ~options.traditional /\ Running) =>
        /\ NoRetryOfSucceeded
        /\ (Quiet /\ \A r \in Requests : StateOf(r) = "ok") => AllReturned
        /\ (AllReturned /\ ~options.skipDecode) =>
               \A gs \in Shapes(input) :
                   LET shape == input[gs[1]][gs[2]]
                   IN  (Absorbed(shape) # {} /\ OrdinaryNames(shape)) =>
                           AbsorbedIn(shape, output.value[gs[1]][gs[2]])

\* all() returned a shape with a reverted call beside a sibling that kept
\* its value, and one with undecodable bytes, without any retry
C11_Witness ==
    /\ AllReturned /\ ~options.traditional /\ ~options.skipDecode
    /\ DOMAIN acts = {<<>>}
    /\ \E gs \in Shapes(input) :
           LET shape == input[gs[1]][gs[2]]
           IN  /\ OrdinaryNames(shape)
               /\ \E i \in Absorbed(shape) : ItemOf(shape[i][2]) \in Reverting
               /\ CallFields(shape) \ Absorbed(shape) # {}
    /\ \E gs \in Shapes(input) :
           \E i \in Absorbed(input[gs[1]][gs[2]]) :
               ItemOf(input[gs[1]][gs[2]][i][2]) \in Undecodable

\* the names of the fields of a shape, in order
Names(shape) == [i \in 1..Len(shape) |-> shape[i][1]]

\* the keys of an output mapping that are field names of the shape, in the
\* order the mapping lists them
FieldKeys(out, shape) ==
    SelectSeq(Names(out), LAMBDA k : \E i \in 1..Len(shape) : shape[i][1] = k)

CallNames(shape) == Names(SelectSeq(shape, LAMBDA pr : ~IsString(pr[2])))
LiteralNames(shape) == Names(SelectSeq(shape, LAMBDA pr : IsString(pr[2])))

\* C12 as stated: for every shape, in both modes, the output mapping lists
\* its fields in the order of the fields of the input shape.
C12_InputOrder ==
    (AllReturned /\ flattenedAmount(input) > 0) =>
        \A gs \in Shapes(input) :
            LET shape == input[gs[1]][gs[2]]
                out == output.value[gs[1]][gs[2]]
            IN  FieldKeys(out, shape) =
                    SelectSeq(Names(shape), LAMBDA k : Has(out, k))

\* the order the code produces: the output mapping lists the Call fields in their input
\* order and the literal fields in their input order, but the two kinds are
\* not interleaved: in aggregated mode the Call fields come first and the
\* literal fields after them, in traditional mode the literal fields come
\* first and the Call fields after them.
C12_GroupedByKind ==
    (AllReturned /\ flattenedAmount(input) > 0) =>
        \A gs \in Shapes(input) :
            LET shape == input[gs[1]][gs[2]]
                out == output.value[gs[1]][gs[2]]
                expected == IF options.traditional
                            THEN LiteralNames(shape) \o CallNames(shape)
                            ELSE CallNames(shape) \o LiteralNames(shape)
            IN  /\ FieldKeys(out, shape) =
                       SelectSeq(expected, LAMBDA k : Has(out, k))
                /\ OrdinaryNames(shape) => Names(out) = expected

\* aggregated mode: a literal field submitted before a Call field comes
\* after it in the output
C12_Witness ==
    /\ AllReturned /\ ~options.traditional
    /\ \E gs \in Shapes(input) :
           LET shape == input[gs[1]][gs[2]]
               out == output.value[gs[1]][gs[2]]
           IN  /\ Len(shape) = 2 /\ OrdinaryNames(shape)
               /\ IsString(shape[1][2]) /\ ~IsString(shape[2][2])
               /\ Names(out) = <<shape[2][1], shape[1][1]>>

\* traditional mode: a Call field submitted before a literal field comes
\* after it in the output
C12_WitnessTraditional ==
    /\ AllReturned /\ options.traditional
    /\ \E gs \in Shapes(input) :
           LET shape == input[gs[1]][gs[2]]
               out == output.value[gs[1]][gs[2]]
           IN  /\ Len(shape) = 2 /\ OrdinaryNames(shape)
               /\ ~IsString(shape[1][2]) /\ IsString(shape[2][2])
               /\ Names(out) = <<shape[2][1], shape[1][1]>>

(***************************************************************************)
(* The constructor.                                                        *)
(***************************************************************************)
InvalidLadder(ladder) ==
    \/ Len(ladder) = 0
    \/ \E i \in 1..Len(ladder) : ~isNumber(ladder[i]) \/ ladder[i].n <= 0

\* C13: constructing a client with an empty ladder or a ladder with a
\* non-numeric or a non-positive entry raises at once, and the ladder of
\* every client that exists is non-empty and holds positive numbers only.
C13_InvalidLadderRejected ==
    /\ (helper.name = "constructor" /\ InvalidLadder(helper.list)) =>
           op = "constructor threw"
    /\ op \notin {"new", "constructor threw"} =>
           /\ Len(chunkSizes) > 0
           /\ \A i \in 1..Len(chunkSizes) : chunkSizes[i] > 0

\* a client built with a ladder holding 0 answered a call list of three
\* calls with the empty list
C13_ZeroLadderTruncates ==
    /\ op = "rawCallInChunks" /\ Returned
    /\ \E i \in 1..Len(chunkSizes) : chunkSizes[i] = 0
    /\ Len(calls) = 3 /\ Top.value = <<>>

\* the empty ladder and the ladder with a non-numeric entry are rejected
C13_EmptyOrNonNumericRejected ==
    (helper.name = "constructor"
        /\ (Len(helper.list) = 0 \/ \E i \in 1..Len(helper.list) : ~isNumber(helper.list[i])))
        => op = "constructor threw"

(***************************************************************************)
(* The concurrency of the chunk requests.                                  *)
(***************************************************************************)
\* C14: at the moment the top-level rawCallInChunks has returned or raised,
\* no chunk request issued on its behalf is still in flight, also when the
\* retry of a sibling chunk has failed terminally.
C14_NoRequestInFlight ==
    (op = "rawCallInChunks" /\ (Returned \/ Threw)) => Quiet

\* when the top-level invocation has returned, no request is in flight
C14_QuietOnReturn ==
    (op = "rawCallInChunks" /\ Returned) => Quiet

\* the top-level invocation raised because the retry of one chunk failed
\* terminally, while a request of the retry of a sibling chunk is in flight
C14_InFlightAfterRaise ==
    /\ op = "rawCallInChunks" /\ Threw
    /\ \E p, q \in DOMAIN acts :
           /\ Len(p) = 1 /\ Len(q) = 1 /\ p # q
           /\ acts[p].phase = "threw"
           /\ \E i \in 1..Len(acts[q].res) : acts[q].res[i] = "pending"

InFlight(p) == \E i \in 1..Len(acts[p].res) : acts[p].res[i] = "pending"

\* C15: barrier join: within one activation of rawCallInChunks the
\* success/failure evaluation is made, and the retry of a failed chunk is
\* dispatched, only after every chunk request of that activation has
\* completed: no activation is past its first join, and no retry of one of
\* its chunks exists, while one of its chunk requests is in flight.
C15_BarrierJoin ==
    (op = "rawCallInChunks" /\ Running) =>
        \A p \in DOMAIN acts :
            InFlight(p) =>
                /\ acts[p].phase = "first"
                /\ \A i \in 1..Len(acts[p].res) : Append(p, i) \notin DOMAIN acts

\* a retry was dispatched for the failed first chunk of an activation whose
\* other chunk requests had all completed, one of them with success
C15_Witness ==
    /\ op = "rawCallInChunks" /\ Running
    /\ Len(Top.res) >= 3 /\ ~InFlight(<<>>)
    /\ Top.res[1] = "fail" /\ Top.res[Len(Top.res)] = "ok"
    /\ <<1>> \in DOMAIN acts /\ InFlight(<<1>>)

\* the first position of chunk i of activation p in the value of p
Offset(p, i) == Sum([k \in 1..(i - 1) |-> Len(chunks(acts[p])[k])])

\* C16: only failed chunks are retried: every retry activation is the retry
\* of a chunk whose request failed at the level above and carries exactly the
\* calls of that chunk; a chunk whose request succeeded has no retry; and in
\* the value an activation returns, the result of a succeeded chunk stands
\* unchanged at the chunk's position.
C16_OnlyFailedRetried ==
    (op = "rawCallInChunks" /\ Running) =>
        /\ \A q \in DOMAIN acts \ {<<>>} :
               /\ acts[Parent(q)].res[q[Len(q)]] = "fail"
               /\ acts[q].calls = chunks(acts[Parent(q)])[q[Len(q)]]
        /\ NoRetryOfSucceeded
        /\ \A p \in DOMAIN acts :
               acts[p].phase = "returned" =>
                   \A i \in 1..Len(acts[p].res) :
                       acts[p].res[i] = "ok" =>
                           SubSeq(acts[p].value, Offset(p, i) + 1,
                                  Offset(p, i) + Len(chunks(acts[p])[i]))
                               = rawCall(chunks(acts[p])[i])

\* a return in which the first chunk had succeeded and a later one was
\* retried
C16_Witness ==
    /\ op = "rawCallInChunks" /\ Returned
    /\ Len(Top.res) >= 2
    /\ Top.res[1] = "ok" /\ Top.res[2] = "fail"
    /\ DOMAIN acts = {<<>>, <<2>>}

(***************************************************************************)
(* The size of the retries.                                                *)
(***************************************************************************)
\* the requests of the retry activations
RetryRequests == {r \in Requests : r[1] # <<>>}

\* C17 as stated: for a decreasing ladder of positive integers, every
\* request dispatched as the retry of a failed chunk contains strictly fewer
\* calls than the failed chunk did.
C17_StrictlyFewerCalls ==
    (op = "rawCallInChunks" /\ Running /\ StrictlyDecreasing(chunkSizes)) =>
        \A r \in RetryRequests : SizeOf(r) < Len(acts[r[1]].calls)

\* the ladder entry that follows the one activation p was chunked at
NextEntry(p) == chunksNoBiggerThanRequests(acts[p])[2]

\* C17, amended: for a decreasing ladder of positive integers, a failed
\* chunk is split again at the next ladder entry: a retry request never
\* contains more calls than the failed chunk nor than that entry; it contains
\* strictly fewer calls than the failed chunk when the entry is smaller than
\* the chunk, and otherwise the chunk is retried whole, in one request of the
\* same size.
C17_RetryAtNextEntry ==
    (op = "rawCallInChunks" /\ Running /\ StrictlyDecreasing(chunkSizes)) =>
        \A q \in DOMAIN acts \ {<<>>} :
            LET n == Len(acts[q].calls)
                e == NextEntry(Parent(q))
            IN  /\ \A i \in 1..Len(acts[q].res) : SizeOf(<<q, i>>) <= Min(n, e)
                /\ e < n => \A i \in 1..Len(acts[q].res) : SizeOf(<<q, i>>) < n
                /\ e >= n => Len(acts[q].res) = 1 /\ SizeOf(<<q, 1>>) = n

\* the short last chunk of four calls split by three failed and was retried
\* whole, and the first chunk was retried in smaller requests
C17_Witness ==
    /\ op = "rawCallInChunks" /\ Running /\ StrictlyDecreasing(chunkSizes)
    /\ Len(calls) = 4 /\ chunkSizes[1] = 3
    /\ DOMAIN acts = {<<>>, <<1>>, <<2>>}
    /\ Len(acts[<<2>>].calls) = 1 /\ SizeOf(<<<<2>>, 1>>) = 1
    /\ \A i \in 1..Len(acts[<<1>>].res) : SizeOf(<<<<1>>, i>>) < 3

(***************************************************************************)
(* The ladder at every level.                                              *)
(***************************************************************************)
Fits(a) == {i \in 1..Len(a.sizes) : a.sizes[i] <= Len(a.calls)}
LargestFit(a) ==
    CHOOSE s \in {a.sizes[i] : i \in Fits(a)} : \A i \in Fits(a) : a.sizes[i] <= s
FirstChunkSize(a) == Len(chunks(a)[1])

\* C18 as stated: at every level the normalised ladder is the ladder without
\* exactly its entries larger than the remaining call count, and the first
\* chunk size is the largest ladder entry that fits, the remaining count only
\* when every entry exceeds it.
C18_LargestEntryThatFits ==
    (op = "rawCallInChunks" /\ Running) =>
        \A p \in DOMAIN acts :
            LET a == acts[p]
            IN  Len(a.calls) > 0 =>
                    /\ Fits(a) # {} =>
                           /\ FirstChunkSize(a) = LargestFit(a)
                           /\ chunksNoBiggerThanRequests(a) =
                                  SelectSeq(a.sizes, LAMBDA s : s <= Len(a.calls))
                    /\ Fits(a) = {} => FirstChunkSize(a) = Len(a.calls)

\* C18, amended: at every level, when no ladder entry exceeds the remaining
\* call count the ladder is used as it is: the chunks have the size of its
\* first entry (the last one maybe fewer) and a retry gets the entries after
\* the first; when some entry exceeds the remaining count, the whole
\* remaining list goes in one request, whether or not another entry fits,
\* and a retry gets the entries smaller than the remaining count, in order.
C18_CappedAtRemainingCount ==
    (op = "rawCallInChunks" /\ Running) =>
        \A p \in DOMAIN acts :
            LET a == acts[p]
                n == Len(a.calls)
                kids == {q \in DOMAIN acts : q # <<>> /\ Parent(q) = p}
            IN  n > 0 =>
                    IF \A i \in 1..Len(a.sizes) : a.sizes[i] <= n
                    THEN /\ \A i \in 1..(Len(a.res) - 1) : SizeOf(<<p, i>>) = a.sizes[1]
                         /\ SizeOf(<<p, Len(a.res)>>) <= a.sizes[1]
                         /\ \A q \in kids : acts[q].sizes = Tail(a.sizes)
                    ELSE /\ Len(a.res) = 1 /\ SizeOf(<<p, 1>>) = n
                         /\ \A q \in kids :
                                acts[q].sizes = SelectSeq(a.sizes, LAMBDA s : s < n)

\* two calls under the ladder <<3, 1>>: one request of two calls although
\* the entry 1 fits, and its retry gets the ladder <<1>>
C18_Witness ==
    /\ op = "rawCallInChunks" /\ Running
    /\ chunkSizes = <<3, 1>> /\ Len(calls) = 2
    /\ Len(Top.res) = 1 /\ SizeOf(<<<<>>, 1>>) = 2
    /\ <<1>> \in DOMAIN acts /\ acts[<<1>>].sizes = <<1>>

\* at a retry level: the one call of a short chunk under the ladder <<2>>
C18_WitnessRetry ==
    /\ op = "rawCallInChunks" /\ Running
    /\ \E q \in DOMAIN acts \ {<<>>} :
           /\ Len(acts[q].calls) = 1 /\ acts[q].sizes = <<2>>
           /\ Len(acts[q].res) = 1

(***************************************************************************)
(* Termination of the fallback.                                            *)
(***************************************************************************)
\* the number of requests call number j of the top call list was sent in:
\* an activation that has requests sends each of its calls in exactly one of
\* them (the calls of a list are distinct as long as it is no longer than
\* UniqueCalls; a repeated call is counted with its repetitions)
Dispatches(j) ==
    Cardinality({q \in DOMAIN acts :
        /\ Len(acts[q].res) > 0
        /\ \E k \in 1..Len(acts[q].calls) : acts[q].calls[k] = calls[j]})

\* the recursion is no deeper than the ladder is long, and no call was
\* dispatched more often than that
WithinLadder ==
    (op = "rawCallInChunks" /\ Running) =>
        /\ \A q \in DOMAIN acts : Len(q) + 1 <= Len(chunkSizes)
        /\ \A j \in 1..Len(calls) : Dispatches(j) <= Len(chunkSizes)

\* the number of requests that have completed
Completed == Cardinality({r \in Requests : StateOf(r) # "pending"})

\* C19: fallback terminates: for any call list and any non-empty ladder of
\* positive integers the recursion is never deeper than the ladder is long
\* and no call is dispatched more often than the ladder is long; there are
\* never more requests than calls times ladder entries, every step of an
\* invocation completes one more request, and an invocation with no request
\* in flight has returned or raised: so, when every dispatched request
\* eventually completes, rawCallInChunks eventually returns or raises.
C19_FallbackTerminates ==
    /\ [](WithinLadder)
    /\ []((op = "rawCallInChunks" /\ Running) =>
             /\ Cardinality(Requests) <= Len(calls) * Len(chunkSizes)
             /\ Quiet => (Returned \/ Threw))
    /\ [][op = "rawCallInChunks" => Completed' = Completed + 1]_vars

\* under the fairness of SpecLive: an invocation eventually returns or raises
C19_EventuallySettles == (op = "rawCallInChunks") ~> (Returned \/ Threw)

\* a return at the deepest level the ladder allows: a call was dispatched
\* as often as the ladder is long
C19_Witness ==
    /\ op = "rawCallInChunks" /\ Returned
    /\ Len(chunkSizes) >= 2 /\ Len(calls) >= 3
    /\ \E q \in DOMAIN acts : Len(q) + 1 = Len(chunkSizes)
    /\ \E j \in 1..Len(calls) : Dispatches(j) = Len(chunkSizes)
    /\ \E j \in 1..Len(calls) : Dispatches(j) = 1

(***************************************************************************)
(* Pinning to a block height.                                              *)
(***************************************************************************)
\* the arguments the request r was issued with: rawCall receives the
\* blockHeight of its activation
RequestArgs(r) == callArgs(acts[r[1]].blockHeight)

\* every request and every direct call issued so far is pinned to height
PinnedTo(height) ==
    /\ \A r \in Requests : RequestArgs(r) = <<Null, height>>
    /\ \A d \in DOMAIN direct : directArgs[d] = <<Null, height>>

\* C20: when a blockHeight is passed to all(), whatever non-negative
\* integer it is, every aggregator request of the invocation (first attempt
\* and every retry at every ladder level) and every direct call of
\* traditional mode is issued pinned to that height.
C20_PinnedToHeight ==
    (op = "all" /\ options.blockHeight.t = "number") =>
        PinnedTo(options.blockHeight)

\* what the code does: a height other than 0 is pinned everywhere
C20_PositiveHeightPinned ==
    (op = "all" /\ options.blockHeight.t = "number" /\ options.blockHeight.n # 0) =>
        PinnedTo(options.blockHeight)

\* height 0 is never pinned: no request and no direct call carries it
C20_HeightZeroUnpinned ==
    (op = "all" /\ options.blockHeight = Num(0)) =>
        /\ \A r \in Requests : RequestArgs(r) = <<>>
        /\ \A d \in DOMAIN direct : directArgs[d] = <<>>

\* a retry at the second ladder level under a positive height
C20_WitnessRetry ==
    /\ op = "all" /\ options.blockHeight = Num(2)
    /\ \E r \in Requests : Len(r[1]) = 1

\* direct calls under a positive height
C20_WitnessTraditional ==
    /\ op = "all" /\ options.blockHeight = Num(1)
    /\ Cardinality(DOMAIN direct) >= 2

\* requests and direct calls under height 0
C20_WitnessZero ==
    /\ op = "all" /\ options.blockHeight = Num(0)
    /\ (Requests # {} \/ DOMAIN direct # {})

(***************************************************************************)
(* The keys of the output mappings.                                        *)
(***************************************************************************)
\* the keys of an output mapping, and the field names of a shape, as sets
KeySet(out) == {out[i][1] : i \in 1..Len(out)}
NameSet(shape) == {shape[i][1] : i \in 1..Len(shape)}

\* C21: for every input shape, whatever its field names are ("data" and
\* "_originAddress" included), the output mapping at the same position has
\* exactly the field names of the input shape as its keys, in aggregated
\* and in traditional mode: no field is dropped or overwritten and no extra
\* key appears.
C21_ExactFieldNames ==
    AllReturned =>
        /\ SameCounts(output.value, input)
        /\ \A gs \in Shapes(input) :
               /\ KeySet(output.value[gs[1]][gs[2]]) = NameSet(input[gs[1]][gs[2]])
               /\ Len(output.value[gs[1]][gs[2]]) = Len(input[gs[1]][gs[2]])

\* C21 for the shapes none of whose fields is named "data" or "_originAddress"
C21_OrdinaryNames ==
    AllReturned =>
        /\ SameCounts(output.value, input)
        /\ \A gs \in Shapes(input) :
               OrdinaryNames(input[gs[1]][gs[2]]) =>
                   /\ KeySet(output.value[gs[1]][gs[2]]) = NameSet(input[gs[1]][gs[2]])
                   /\ Len(output.value[gs[1]][gs[2]]) = Len(input[gs[1]][gs[2]])

\* a Call field named "data" is dropped and the characters of its value
\* appear as extra keys, in aggregated mode
C21_WitnessData ==
    /\ AllReturned /\ ~options.traditional
    /\ \E gs \in Shapes(input) :
           LET shape == input[gs[1]][gs[2]]
               out == output.value[gs[1]][gs[2]]
           IN  /\ \E i \in CallFields(shape) : shape[i][1] = "data"
               /\ ~Has(out, "data")
               /\ KeySet(out) \ NameSet(shape) # {}

\* a field named "_originAddress" is dropped, in traditional mode
C21_WitnessOrigin ==
    /\ AllReturned /\ options.traditional
    /\ \E gs \in Shapes(input) :
           LET shape == input[gs[1]][gs[2]]
               out == output.value[gs[1]][gs[2]]
           IN  /\ "_originAddress" \in NameSet(shape)
               /\ ~Has(out, "_originAddress")

\* shapes under ordinary names, calls and literals, returned in both modes
C21_WitnessOrdinary ==
    /\ AllReturned
    /\ \E gs \in Shapes(input) :
           LET shape == input[gs[1]][gs[2]]
           IN  /\ OrdinaryNames(shape)
               /\ CallFields(shape) # {} /\ LiteralFields(shape) # {}
               /\ KeySet(output.value[gs[1]][gs[2]]) = NameSet(shape)

====
